---- MODULE Spec2Model ----
(***************************************************************************)
(* Student records REST API: the three revisions of the student routes     *)
(* (app.py, the API-key blueprint, the JWT-protected APIFlask blueprint),  *)
(* the peewee tables they share and the in-memory JWT user store.          *)
(***************************************************************************)
EXTENDS Integers, Sequences, FiniteSets, TLC

\* ------------------------------------------------------------------------
\* Bounds of the model
\* ------------------------------------------------------------------------
MaxStudents == 2      \* rows the students table may hold
MaxId == 2            \* largest rowid a create may assign
MaxTime == 4          \* last clock tick (half seconds)
MaxUsers == 2         \* entries users_db may hold
MaxIssued == 1        \* tokens handed out by login that are kept
MaxConcurrent == 2    \* register requests handled at the same time
MaxInt == 130         \* largest integer a numeric string may denote
SqliteIntMax == 1000  \* largest value an INTEGER column stores (scaled down
                      \* from 2^63 - 1; above every value a string denotes)

\* ------------------------------------------------------------------------
\* JSON / Python values.  Every value carries its type: a JSON number and
\* the JSON string of its digits are different values.
\* ------------------------------------------------------------------------
Absent == [t |-> "absent", s |-> "", i |-> 0]
Null == [t |-> "null", s |-> "", i |-> 0]
Str(x) == [t |-> "str", s |-> x, i |-> 0]
Num(n) == [t |-> "int", s |-> "", i |-> n]

\* dict.get(key): a missing key reads as None
Get(v) == IF v.t = "absent" THEN Null ELSE v

\* Python truth value of dict.get(key)
Truthy(v) ==
  CASE v.t = "str" -> v.s # ""
    [] v.t = "int" -> v.i # 0
    [] OTHER -> FALSE

Digit(d) ==
  CASE d = 0 -> "0" [] d = 1 -> "1" [] d = 2 -> "2" [] d = 3 -> "3"
    [] d = 4 -> "4" [] d = 5 -> "5" [] d = 6 -> "6" [] d = 7 -> "7"
    [] d = 8 -> "8" [] OTHER -> "9"

RECURSIVE IntToStr(_)
\* str(n) of a Python int
IntToStr(n) ==
  IF n < 0 THEN "-" \o IntToStr(0 - n)
  ELSE IF n < 10 THEN Digit(n)
  ELSE IntToStr(n \div 10) \o Digit(n % 10)

\* the integers int(s) is tried against
IntRange == 0..MaxInt

\* int(s) succeeds
IsIntStr(s) == \E n \in IntRange : IntToStr(n) = s

\* int(s)
ParseInt(s) == CHOOSE n \in IntRange : IntToStr(n) = s

\* str(v) as an f-string renders it
PyStr(v) ==
  CASE v.t = "str" -> v.s
    [] v.t = "int" -> IntToStr(v.i)
    [] OTHER -> "None"

\* ------------------------------------------------------------------------
\* peewee field conversions (value written to the column)
\* ------------------------------------------------------------------------
\* CharField.db_value: None stays NULL, text is kept, anything else is str()
CharDbValue(v) ==
  CASE v.t = "str" -> v
    [] v.t = "int" -> Str(IntToStr(v.i))
    [] OTHER -> Null

\* IntegerField.db_value raises ValueError
IntDbFails(v) == v.t = "str" /\ ~IsIntStr(v.s)

\* IntegerField.db_value: None stays NULL, otherwise int(value)
IntDbValue(v) ==
  CASE v.t = "int" -> v
    [] v.t = "str" -> Num(ParseInt(v.s))
    [] OTHER -> Null

\* binding the value to the INSERT/UPDATE raises OverflowError: the int does
\* not fit an SQLite INTEGER
IntOverflows(v) == v.t = "int" /\ v.i > SqliteIntMax

\* ------------------------------------------------------------------------
\* Tables
\* ------------------------------------------------------------------------
\* groups table: id -> group_name (no route of the repository writes it)
Groups == (1 :> "python411") @@ (2 :> "python412")

\* Group.get(Group.group_name == v) finds a row
GroupExists(v) == \E g \in DOMAIN Groups : Str(Groups[g]) = CharDbValue(v)

\* Group.get(Group.group_name == v).id
GroupByName(v) == CHOOSE g \in DOMAIN Groups : Str(Groups[g]) = CharDbValue(v)

VARIABLES
  students,      \* students table: id -> row
  users_db,      \* api/auth.py users_db: username -> user record
  now,           \* the clock, in ticks
  issued,        \* login responses the clients hold: token and issue time
  req,           \* the request handled last
  resp,          \* its response
  dbLog,         \* the queries it executed, in order
  bodyRan,       \* whether the route function's body was entered
  current_user,  \* flask.g.current_user of that request
  registered,    \* what the clients know: username -> the password and
                 \* admin flag of the registration that was answered 200
  USERS,         \* keys.py USERS: the list of API-key records
  key_check,     \* the last direct call of the keys.py functions: the key
                 \* and what is_valid_api_key and is_admin returned for it
  inflight,      \* an update handler between its lookups and its save():
                 \* its request and the student instance it loaded
  registering    \* the register requests whose register_user has found the
                 \* username free and has not stored the user yet

vars == <<students, users_db, now, issued, req, resp, dbLog, bodyRan,
          current_user, registered, USERS, key_check, inflight, registering>>

\* Student row as stored
Row(fn, mn, ln, ag, gr) ==
  [first_name |-> fn, middle_name |-> mn, last_name |-> ln, age |-> ag,
   group |-> gr]

\* id SQLite assigns to the next inserted row: max(rowid) + 1
NextId(tbl) ==
  IF DOMAIN tbl = {} THEN 1
  ELSE 1 + CHOOSE m \in DOMAIN tbl : \A k \in DOMAIN tbl : k <= m

\* table after INSERT of row
Insert(tbl, row) == [k \in DOMAIN tbl \cup {NextId(tbl)} |->
                       IF k \in DOMAIN tbl THEN tbl[k] ELSE row]

\* table after DELETE of id
Delete(tbl, id) == [k \in DOMAIN tbl \ {id} |-> tbl[k]]

\* row written by Model.save()/create() from the instance's attributes
StoredRow(fn, mn, ln, ag, gr) ==
  Row(CharDbValue(fn), CharDbValue(mn), CharDbValue(ln), IntDbValue(ag), gr)

\* the INSERT/UPDATE raises: NOT NULL column given None, int() fails, or
\* the int does not fit the column
SaveFails(fn, ln, ag) ==
  \/ CharDbValue(fn) = Null
  \/ CharDbValue(ln) = Null
  \/ IntDbFails(ag)
  \/ IntOverflows(ag)

\* ------------------------------------------------------------------------
\* Responses
\* ------------------------------------------------------------------------
NoStudent == [id |-> 0, name |-> "", group |-> Absent, age |-> Absent,
              middle_name |-> Absent]

\* the dict every handler builds from a model instance
StudentDict(id, fn, ln, gr, ag, mn) ==
  [id |-> id, name |-> PyStr(fn) \o " " \o PyStr(ln),
   group |-> IF gr = Null THEN Null ELSE Str(Groups[gr.i]),
   age |-> ag, middle_name |-> mn]

\* the dict built from a row read back from the table
RowDict(tbl, id) ==
  StudentDict(id, tbl[id].first_name, tbl[id].last_name, tbl[id].group,
              tbl[id].age, tbl[id].middle_name)

Response(st, kind, stu, lst, tok) ==
  [status |-> st, kind |-> kind, student |-> stu, list |-> lst, token |-> tok,
   token_type |-> "", expires_in |-> 0]

NoToken == [ok |-> FALSE, key |-> "", hasSub |-> FALSE, sub |-> "",
            hasExp |-> FALSE, exp |-> 0, is_admin |-> FALSE]

ErrorResp(st) == Response(st, "error", NoStudent, <<>>, NoToken)
StudentResp(st, stu) == Response(st, "student", stu, <<>>, NoToken)
MessageResp(st) == Response(st, "message", NoStudent, <<>>, NoToken)
ListResp(lst) == Response(200, "list", NoStudent, lst, NoToken)

\* what a handler did: its response, the table it leaves, the queries it
\* executed in order, and whether the route function's body was entered
Out(r, tbl, log, ran) == [resp |-> r, tbl |-> tbl, log |-> log, ran |-> ran]

\* ------------------------------------------------------------------------
\* Request bodies
\* ------------------------------------------------------------------------
Payload(fn, mn, ln, ag, gr, gid) ==
  [first_name |-> fn, middle_name |-> mn, last_name |-> ln, age |-> ag,
   group |-> gr, group_id |-> gid]

\* {} : request.get_json() is falsy
EmptyPayload == Payload(Absent, Absent, Absent, Absent, Absent, Absent)

\* ------------------------------------------------------------------------
\* blueprints/students/validators.py
\* ------------------------------------------------------------------------
\* str field with min_length=3, max_length=30 (pydantic does not coerce to str)
ValidName(v) == v.t = "str" /\ Len(v.s) >= 3 /\ Len(v.s) <= 30

\* int field with gt=0, le=120 (pydantic accepts an integer string)
ValidAge(v) ==
  /\ v.t = "int" \/ (v.t = "str" /\ IsIntStr(v.s))
  /\ IntDbValue(v).i > 0
  /\ IntDbValue(v).i <= 120

\* StudentValidator(**data) raises no ValidationError
StudentValidator(data) ==
  /\ ValidName(data.first_name)
  /\ ValidName(data.last_name)
  /\ ValidName(data.middle_name)
  /\ ValidAge(data.age)
  /\ ValidName(data.group)

\* validated_data.model_dump()
model_dump(data) ==
  [first_name |-> data.first_name, middle_name |-> data.middle_name,
   last_name |-> data.last_name, age |-> IntDbValue(data.age),
   group |-> data.group]

\* ------------------------------------------------------------------------
\* app.py
\* ------------------------------------------------------------------------
\* all(field in student_data for field in required_fields)
app_required_fields(data) ==
  /\ data.first_name.t # "absent"
  /\ data.last_name.t # "absent"
  /\ data.age.t # "absent"
  /\ data.group.t # "absent"

\* GET /api/student/<id>
app_get_student_by_id(tbl, id) ==
  IF id \in DOMAIN tbl
  THEN Out(StudentResp(200, RowDict(tbl, id)), tbl, <<"Student.get">>, TRUE)
  ELSE Out(ErrorResp(404), tbl, <<"Student.get">>, TRUE)

\* POST /api/students/create
app_create_student(tbl, data) ==
  LET fn == Get(data.first_name)
      mn == Get(data.middle_name)
      ln == Get(data.last_name)
      ag == Get(data.age)
      hasGroup == data.group.t # "absent"
      log0 == IF hasGroup THEN <<"Group.get">> ELSE <<>>
  IN IF data = EmptyPayload THEN Out(ErrorResp(400), tbl, <<>>, TRUE)
     ELSE IF hasGroup /\ ~GroupExists(data.group)
       THEN Out(ErrorResp(404), tbl, log0, TRUE)
     ELSE IF ~app_required_fields(data) THEN Out(ErrorResp(400), tbl, log0, TRUE)
     ELSE IF IntDbFails(ag) THEN Out(ErrorResp(500), tbl, log0, TRUE)
     ELSE IF SaveFails(fn, ln, ag)
       THEN Out(ErrorResp(500), tbl, log0 \o <<"Student.insert">>, TRUE)
     ELSE LET gr == Num(GroupByName(data.group))
          IN Out(StudentResp(201, StudentDict(NextId(tbl), fn, ln, gr, ag, mn)),
                 Insert(tbl, StoredRow(fn, mn, ln, ag, gr)),
                 log0 \o <<"Student.insert">>, TRUE)

\* delete_student without the call of delete_instance()
app_delete_student_NoDelete(tbl, id) ==
  IF id \notin DOMAIN tbl
  THEN Out(ErrorResp(404), tbl, <<"Student.get">>, TRUE)
  ELSE Out(MessageResp(200), tbl, <<"Student.get">>, TRUE)

\* DELETE /api/student/<id>/delete
app_delete_student(tbl, id) ==
  IF id \notin DOMAIN tbl
  THEN Out(ErrorResp(404), tbl, <<"Student.get">>, TRUE)
  ELSE Out(MessageResp(200), Delete(tbl, id),
           <<"Student.get", "Student.delete">>, TRUE)

\* all([first_name, middle_name, last_name, age, group])
app_update_fields(data) ==
  /\ Truthy(Get(data.first_name))
  /\ Truthy(Get(data.middle_name))
  /\ Truthy(Get(data.last_name))
  /\ Truthy(Get(data.age))
  /\ Truthy(Get(data.group))

\* PUT /api/student/<id>/update
app_update_student(tbl, id, data) ==
  LET fn == Get(data.first_name)
      mn == Get(data.middle_name)
      ln == Get(data.last_name)
      ag == Get(data.age)
  IN IF id \notin DOMAIN tbl
       THEN Out(ErrorResp(404), tbl, <<"Student.get">>, TRUE)
     ELSE IF data = EmptyPayload
       THEN Out(ErrorResp(400), tbl, <<"Student.get">>, TRUE)
     ELSE IF ~app_update_fields(data)
       THEN Out(ErrorResp(400), tbl, <<"Student.get">>, TRUE)
     ELSE IF ~GroupExists(data.group)
       THEN Out(ErrorResp(404), tbl, <<"Student.get", "Group.get">>, TRUE)
     ELSE IF SaveFails(fn, ln, ag)
       THEN Out(ErrorResp(500), tbl, <<"Student.get", "Group.get">>, TRUE)
     ELSE LET gr == Num(GroupByName(data.group))
          IN Out(StudentResp(200, StudentDict(id, fn, ln, gr, ag, mn)),
                 [tbl EXCEPT ![id] = StoredRow(fn, mn, ln, ag, gr)],
                 <<"Student.get", "Group.get", "Student.update">>, TRUE)

\* ------------------------------------------------------------------------
\* keys.py
\* ------------------------------------------------------------------------
\* the list the module is loaded with
USERS_at_import ==
         <<[username |-> "admin", api_key |-> "asfd234U*(&*#@$@#$sf---)",
            role |-> "admin"],
           [username |-> "user1", api_key |-> "aasdfJLs13&^^%%^ads!!fs",
            role |-> "user"]>>

\* api_key is the X-API-KEY header: Null when the header is missing
is_valid_api_key(api_key) ==
  \E k \in DOMAIN USERS : Str(USERS[k].api_key) = api_key

\* is_admin without the test of the role
is_admin_AnyRole(api_key) ==
  \E k \in DOMAIN USERS : Str(USERS[k].api_key) = api_key

is_admin(api_key) ==
  \E k \in DOMAIN USERS :
    Str(USERS[k].api_key) = api_key /\ USERS[k].role = "admin"

\* ------------------------------------------------------------------------
\* blueprints/students/students_routes.py
\* ------------------------------------------------------------------------
\* get_student_by_id without the except clause: DoesNotExist becomes a 500
bp_get_student_by_id_Uncaught(tbl, id, api_key) ==
  IF ~is_valid_api_key(api_key) THEN Out(ErrorResp(403), tbl, <<>>, TRUE)
  ELSE IF id \in DOMAIN tbl
    THEN Out(StudentResp(200, RowDict(tbl, id)), tbl, <<"Student.get">>, TRUE)
  ELSE Out(ErrorResp(500), tbl, <<"Student.get">>, TRUE)

\* get_student_by_id with the lookup of the student ahead of the key check
bp_get_student_by_id_LookupFirst(tbl, id, api_key) ==
  IF id \notin DOMAIN tbl
    THEN Out(ErrorResp(404), tbl, <<"Student.get">>, TRUE)
  ELSE IF ~is_valid_api_key(api_key)
    THEN Out(ErrorResp(403), tbl, <<"Student.get">>, TRUE)
  ELSE Out(StudentResp(200, RowDict(tbl, id)), tbl, <<"Student.get">>, TRUE)

\* GET /api/students/<id>
bp_get_student_by_id(tbl, id, api_key) ==
  IF ~is_valid_api_key(api_key) THEN Out(ErrorResp(403), tbl, <<>>, TRUE)
  ELSE IF id \in DOMAIN tbl
    THEN Out(StudentResp(200, RowDict(tbl, id)), tbl, <<"Student.get">>, TRUE)
  ELSE Out(ErrorResp(404), tbl, <<"Student.get">>, TRUE)

\* POST /api/students/create
bp_create_student(tbl, data) ==
  IF data = EmptyPayload THEN Out(ErrorResp(400), tbl, <<>>, TRUE)
  ELSE IF ~StudentValidator(data) THEN Out(ErrorResp(400), tbl, <<>>, TRUE)
  ELSE IF ~GroupExists(data.group)
    THEN Out(ErrorResp(404), tbl, <<"Group.get">>, TRUE)
  ELSE LET d == model_dump(data)
           gr == Num(GroupByName(d.group))
       IN Out(StudentResp(201, StudentDict(NextId(tbl), d.first_name,
                                           d.last_name, gr, d.age,
                                           d.middle_name)),
              Insert(tbl, StoredRow(d.first_name, d.middle_name, d.last_name,
                                    d.age, gr)),
              <<"Group.get", "Student.insert">>, TRUE)

\* DELETE /api/students/<id>/delete
bp_delete_student(tbl, id) ==
  IF id \notin DOMAIN tbl
  THEN Out(ErrorResp(404), tbl, <<"Student.get">>, TRUE)
  ELSE Out(MessageResp(200), Delete(tbl, id),
           <<"Student.get", "Student.delete">>, TRUE)

\* update_student with a validator that has no constraint on age
bp_update_student_NoAgeRange(tbl, id, data) ==
  IF id \notin DOMAIN tbl
    THEN Out(ErrorResp(404), tbl, <<"Student.get">>, TRUE)
  ELSE IF data = EmptyPayload
    THEN Out(ErrorResp(400), tbl, <<"Student.get">>, TRUE)
  ELSE IF ~(/\ ValidName(data.first_name) /\ ValidName(data.last_name)
            /\ ValidName(data.middle_name) /\ ValidName(data.group)
            /\ data.age.t = "int" \/ (data.age.t = "str" /\ IsIntStr(data.age.s)))
    THEN Out(ErrorResp(400), tbl, <<"Student.get">>, TRUE)
  ELSE IF ~GroupExists(data.group)
    THEN Out(ErrorResp(404), tbl, <<"Student.get", "Group.get">>, TRUE)
  ELSE LET d == model_dump(data)
           gr == Num(GroupByName(d.group))
       IN Out(StudentResp(200, StudentDict(id, d.first_name, d.last_name, gr,
                                           d.age, d.middle_name)),
              [tbl EXCEPT ![id] = StoredRow(d.first_name, d.middle_name,
                                            d.last_name, d.age, gr)],
              <<"Student.get", "Group.get", "Student.update">>, TRUE)

\* PUT /api/students/<id>/update
bp_update_student(tbl, id, data) ==
  IF id \notin DOMAIN tbl
    THEN Out(ErrorResp(404), tbl, <<"Student.get">>, TRUE)
  ELSE IF data = EmptyPayload
    THEN Out(ErrorResp(400), tbl, <<"Student.get">>, TRUE)
  ELSE IF ~StudentValidator(data)
    THEN Out(ErrorResp(400), tbl, <<"Student.get">>, TRUE)
  ELSE IF ~GroupExists(data.group)
    THEN Out(ErrorResp(404), tbl, <<"Student.get", "Group.get">>, TRUE)
  ELSE LET d == model_dump(data)
           gr == Num(GroupByName(d.group))
       IN Out(StudentResp(200, StudentDict(id, d.first_name, d.last_name, gr,
                                           d.age, d.middle_name)),
              [tbl EXCEPT ![id] = StoredRow(d.first_name, d.middle_name,
                                            d.last_name, d.age, gr)],
              <<"Student.get", "Group.get", "Student.update">>, TRUE)

\* ------------------------------------------------------------------------
\* GET /api/students (app.py and the blueprint share the code)
\* ------------------------------------------------------------------------
\* the strings ORDER BY compares, in SQLite's BINARY collation order
Collation == <<"Ivanov", "Petrov", "python411", "python412">>

\* position of a column value in the ORDER BY order; NULL sorts first
SortRank(v) ==
  CASE v.t = "int" -> v.i
    [] v.t = "str" /\ (\E k \in DOMAIN Collation : Collation[k] = v.s) ->
         CHOOSE k \in DOMAIN Collation : Collation[k] = v.s
    [] OTHER -> 0 - 1

\* value of the sort_field column for row id
SortKey(tbl, id, param) ==
  CASE param = "last_name" -> SortRank(tbl[id].last_name)
    [] param = "age" -> SortRank(tbl[id].age)
    [] OTHER -> SortRank(IF tbl[id].group = Null THEN Null
                         ELSE Str(Groups[tbl[id].group.i]))

\* str.lower() on the order values the model sends
Lower(x) ==
  CASE x \in {"DESC", "Desc", "desc"} -> "desc"
    [] x \in {"ASC", "asc"} -> "asc"
    [] x \in {"Bearer", "BEARER", "bearer"} -> "bearer"
    [] x = "Basic" -> "basic"
    [] OTHER -> x

\* the query without its WHERE clause
Selected_NoWhere(tbl, filter, param) ==
  {id \in DOMAIN tbl :
     (Truthy(param) /\ param.s = "group") => tbl[id].group # Null}

\* rows the query selects: WHERE group = g, and the inner JOIN on groups
Selected(tbl, filter, param) ==
  {id \in DOMAIN tbl :
     /\ Truthy(filter) => tbl[id].group = Num(GroupByName(filter))
     /\ (Truthy(param) /\ param.s = "group") => tbl[id].group # Null}

\* the rows in the order the query yields them
Ordered(tbl, ids, param, order) ==
  CHOOSE q \in [1..Cardinality(ids) -> ids] :
    /\ \A a, b \in DOMAIN q : a # b => q[a] # q[b]
    /\ Truthy(param) =>
         \A a, b \in DOMAIN q : a < b =>
           IF Lower(order) = "desc"
           THEN SortKey(tbl, q[a], param.s) >= SortKey(tbl, q[b], param.s)
           ELSE SortKey(tbl, q[a], param.s) <= SortKey(tbl, q[b], param.s)

\* param, filter: Null when the query parameter is missing
get_students(tbl, param, order, filter) ==
  LET log0 == IF Truthy(filter) THEN <<"Group.get">> ELSE <<>>
  IN IF Truthy(filter) /\ ~GroupExists(filter)
       THEN Out(ErrorResp(404), tbl, log0, TRUE)
     ELSE IF Truthy(param) /\ param.s \notin {"last_name", "age", "group"}
       THEN Out(ErrorResp(400), tbl, log0, TRUE)
     ELSE LET q == Ordered(tbl, Selected(tbl, filter, param), param, order)
          IN Out(ListResp([k \in DOMAIN q |-> RowDict(tbl, q[k])]), tbl,
                 log0 \o <<"Student.select">>, TRUE)

app_get_students(tbl, param, order, filter) ==
  get_students(tbl, param, order, filter)

bp_get_students(tbl, param, order, filter) ==
  get_students(tbl, param, order, filter)

\* ------------------------------------------------------------------------
\* api/auth.py
\* ------------------------------------------------------------------------
TicksPerSecond == 2        \* clock ticks per second of the model's clock

\* config.JWT_EXPIRATION, in seconds
JWT_EXPIRATION == 1

\* config.JWT_SECRET_KEY
JWT_SECRET_KEY == "secret"

\* the salts pbkdf2_sha256.hash draws from
Salts == {1, 2}

\* pbkdf2_sha256.hash(password): the digest of the password under a salt it
\* draws itself, stored with that salt
Hash(password, salt) ==
  [alg |-> "pbkdf2_sha256", salt |-> salt, digest |-> <<salt, password>>]

\* pbkdf2_sha256.verify(password, hash): recomputes the digest under the
\* salt stored in hash
Verify(password, hash) == hash = Hash(password, hash.salt)

\* a JWT: ok = it parses as a JWT, key = the key that signed it
Token(key, hasSub, sub, hasExp, exp, adm) ==
  [ok |-> TRUE, key |-> key, hasSub |-> hasSub, sub |-> sub,
   hasExp |-> hasExp, exp |-> exp, is_admin |-> adm]

\* datetime.utcnow() + timedelta(seconds=JWT_EXPIRATION), as jwt.encode
\* writes it: whole seconds since the epoch
ExpClaim(t) == (t \div TicksPerSecond) + JWT_EXPIRATION

generate_token(db, t, username) ==
  Token(JWT_SECRET_KEY, TRUE, username, TRUE, ExpClaim(t),
        IF username \in DOMAIN db THEN db[username].is_admin ELSE FALSE)

None == [ok |-> FALSE, username |-> "", is_admin |-> FALSE]

\* the expiry test with < for <=
Expired_Strict(token, t) == token.hasExp /\ token.exp * TicksPerSecond < t

\* jwt.decode raises ExpiredSignatureError: exp <= now
Expired(token, t) == token.hasExp /\ token.exp * TicksPerSecond <= t

\* verify_token without the lookup of the subject in users_db
verify_token_NoUserCheck(db, t, token) ==
  IF ~token.ok \/ token.key # JWT_SECRET_KEY THEN None
  ELSE IF Expired(token, t) THEN None
  ELSE IF ~token.hasSub THEN None
  ELSE [ok |-> TRUE, username |-> token.sub, is_admin |-> token.is_admin]

verify_token(db, t, token) ==
  IF ~token.ok \/ token.key # JWT_SECRET_KEY THEN None
  ELSE IF Expired(token, t) THEN None
  ELSE IF ~token.hasSub THEN None
  ELSE IF token.sub \notin DOMAIN db THEN None
  ELSE [ok |-> TRUE, username |-> token.sub, is_admin |-> token.is_admin]

\* Authorization header: n = number of whitespace-separated parts (0 when
\* the header is missing or empty), scheme and token = the first two parts
Header(n, scheme, token) == [n |-> n, scheme |-> scheme, token |-> token]

NoHeader == Header(0, "", NoToken)

\* the token token_required extracts from the header
BearerToken(h) ==
  IF h.n = 2 /\ Lower(h.scheme) = "bearer" THEN h.token ELSE NoToken

\* token_required: the identity it stores in g.current_user, None when it
\* answers 401 itself
token_required(db, t, h) ==
  IF ~(h.n = 2 /\ Lower(h.scheme) = "bearer") THEN None
  ELSE verify_token(db, t, BearerToken(h))

\* register_user that stores the new record before it looks the name up
register_user_Overwrite(db, username, password, adm, salt) ==
  [ok |-> username \notin DOMAIN db,
   db |-> [u \in DOMAIN db \cup {username} |->
             IF u # username THEN db[u]
             ELSE [username |-> username, password |-> Hash(password, salt),
                   is_admin |-> adm]]]

\* ok = the value register_user returns, db = users_db afterwards; salt is
\* the salt pbkdf2_sha256.hash draws
register_user(db, username, password, adm, salt) ==
  IF username \in DOMAIN db THEN [ok |-> FALSE, db |-> db]
  ELSE [ok |-> TRUE,
        db |-> [u \in DOMAIN db \cup {username} |->
                  IF u \in DOMAIN db THEN db[u]
                  ELSE [username |-> username,
                        password |-> Hash(password, salt),
                        is_admin |-> adm]]]

\* authenticate_user without the password check
authenticate_user_AnyPassword(db, username, password) ==
  username \in DOMAIN db

authenticate_user(db, username, password) ==
  username \in DOMAIN db /\ Verify(password, db[username].password)

\* ------------------------------------------------------------------------
\* api/routes/students.py
\* ------------------------------------------------------------------------
\* marshmallow String(): a str
IsString(v) == v.t = "str"

\* marshmallow Integer(): an int or an integer string
IsInteger(v) == v.t = "int" \/ (v.t = "str" /\ IsIntStr(v.s))

\* StudentCreateSchema().load(json) raises no ValidationError; "group" is
\* not a field of the schema
StudentCreateSchema(data) ==
  /\ IsString(data.first_name)
  /\ IsString(data.last_name)
  /\ data.middle_name.t = "absent" \/ IsString(data.middle_name)
  /\ data.age.t = "absent" \/ IsInteger(data.age)
  /\ data.group_id.t = "absent" \/ IsInteger(data.group_id)
  /\ data.group.t = "absent"

\* body of get_student_by_id
api_get_student_by_id(tbl, id) ==
  IF id \in DOMAIN tbl
  THEN Out(StudentResp(200, RowDict(tbl, id)), tbl, <<"Student.get">>, TRUE)
  ELSE Out(ErrorResp(404), tbl, <<"Student.get">>, TRUE)

\* create_student without the transaction: the row inserted before the
\* group lookup fails stays in the table
api_create_student_NoAtomic(tbl, data) ==
  LET fn == data.first_name
      ln == data.last_name
      mn == Get(data.middle_name)
      ag == IntDbValue(Get(data.age))
      group_id == IntDbValue(Get(data.group_id))
  IN IF Truthy(group_id) /\ group_id.i \notin DOMAIN Groups
       THEN Out(ErrorResp(400), tbl, <<"Group.get_by_id">>, TRUE)
     ELSE IF IntOverflows(ag)
       THEN Out(ErrorResp(400), tbl,
                IF group_id = Null THEN <<"Student.insert">>
                ELSE <<"Group.get_by_id", "Student.insert">>, TRUE)
     ELSE IF group_id # Null /\ group_id.i \notin DOMAIN Groups
       THEN Out(ErrorResp(400), Insert(tbl, StoredRow(fn, mn, ln, ag, group_id)),
                <<"Student.insert", "Group.get">>, TRUE)
     ELSE Out(StudentResp(201, StudentDict(NextId(tbl), fn, ln, group_id, ag,
                                           mn)),
              Insert(tbl, StoredRow(fn, mn, ln, ag, group_id)),
              IF group_id = Null THEN <<"Student.insert">>
              ELSE <<"Group.get_by_id", "Student.insert", "Group.get">>, TRUE)

\* create_student with the DoesNotExist of student.group caught inside the
\* with block: the transaction commits the row and the route answers 400
api_create_student_CommitOnError(tbl, data) ==
  LET fn == data.first_name
      ln == data.last_name
      mn == Get(data.middle_name)
      ag == IntDbValue(Get(data.age))
      group_id == IntDbValue(Get(data.group_id))
  IN IF Truthy(group_id) /\ group_id.i \notin DOMAIN Groups
       THEN Out(ErrorResp(400), tbl,
                <<"BEGIN", "Group.get_by_id", "ROLLBACK">>, TRUE)
     ELSE IF IntOverflows(ag)
       THEN Out(ErrorResp(400), tbl,
                IF group_id = Null THEN <<"BEGIN", "Student.insert", "ROLLBACK">>
                ELSE <<"BEGIN", "Group.get_by_id", "Student.insert",
                       "ROLLBACK">>, TRUE)
     ELSE IF group_id # Null /\ group_id.i \notin DOMAIN Groups
       THEN Out(ErrorResp(400), Insert(tbl, StoredRow(fn, mn, ln, ag, group_id)),
                <<"BEGIN", "Student.insert", "Group.get", "COMMIT">>, TRUE)
     ELSE Out(StudentResp(201, StudentDict(NextId(tbl), fn, ln, group_id, ag,
                                           mn)),
              Insert(tbl, StoredRow(fn, mn, ln, ag, group_id)),
              IF group_id = Null THEN <<"BEGIN", "Student.insert", "COMMIT">>
              ELSE <<"BEGIN", "Group.get_by_id", "Student.insert",
                     "Group.get", "COMMIT">>, TRUE)

\* body of create_student; data is the loaded schema
api_create_student(tbl, data) ==
  LET fn == data.first_name
      ln == data.last_name
      mn == Get(data.middle_name)
      ag == IntDbValue(Get(data.age))
      group_id == IntDbValue(Get(data.group_id))
  IN IF Truthy(group_id) /\ group_id.i \notin DOMAIN Groups
       THEN Out(ErrorResp(400), tbl,
                <<"BEGIN", "Group.get_by_id", "ROLLBACK">>, TRUE)
     ELSE IF IntOverflows(ag)
       THEN Out(ErrorResp(400), tbl,
                IF group_id = Null THEN <<"BEGIN", "Student.insert", "ROLLBACK">>
                ELSE <<"BEGIN", "Group.get_by_id", "Student.insert",
                       "ROLLBACK">>, TRUE)
     ELSE IF group_id # Null /\ group_id.i \notin DOMAIN Groups
       THEN Out(ErrorResp(400), tbl,
                <<"BEGIN", "Student.insert", "Group.get", "ROLLBACK">>, TRUE)
     ELSE Out(StudentResp(201, StudentDict(NextId(tbl), fn, ln, group_id, ag,
                                           mn)),
              Insert(tbl, StoredRow(fn, mn, ln, ag, group_id)),
              IF group_id = Null THEN <<"BEGIN", "Student.insert", "COMMIT">>
              ELSE <<"BEGIN", "Group.get_by_id", "Student.insert",
                     "Group.get", "COMMIT">>, TRUE)

\* GET /api/student/<id>: output(token_required(get_student_by_id))
api_get_route(tbl, db, t, h, id) ==
  IF ~token_required(db, t, h).ok THEN Out(ErrorResp(401), tbl, <<>>, FALSE)
  ELSE api_get_student_by_id(tbl, id)

\* POST /api/students/create:
\* input(output(token_required(create_student)))
api_create_route(tbl, db, t, h, data) ==
  IF ~StudentCreateSchema(data) THEN Out(ErrorResp(422), tbl, <<>>, FALSE)
  ELSE IF ~token_required(db, t, h).ok
    THEN Out(ErrorResp(401), tbl, <<>>, FALSE)
  ELSE api_create_student(tbl, data)

\* ------------------------------------------------------------------------
\* api/routes/auth.py
\* ------------------------------------------------------------------------
\* {"access_token": token, "token_type": "bearer",
\*  "expires_in": config.JWT_EXPIRATION}
TokenResp(tok) ==
  [Response(200, "token", NoStudent, <<>>, tok) EXCEPT
     !.token_type = "bearer", !.expires_in = JWT_EXPIRATION]

\* POST /api/auth/login
login(db, t, username, password) ==
  IF ~authenticate_user(db, username, password) THEN ErrorResp(401)
  ELSE TokenResp(generate_token(db, t, username))

\* POST /api/auth/register
register(db, username, password, adm, salt) ==
  IF ~register_user(db, username, password, adm, salt).ok THEN ErrorResp(400)
  ELSE MessageResp(200)

\* ------------------------------------------------------------------------
\* Requests the model sends
\* ------------------------------------------------------------------------
Request(variant, op) ==
  [variant |-> variant, op |-> op, id |-> 0, data |-> EmptyPayload,
   api_key |-> Null, header |-> NoHeader, param |-> Null, order |-> "asc",
   filter |-> Null, username |-> "", password |-> "", is_admin |-> FALSE,
   at |-> 0]

Ids == 1..MaxId

Ivan == Payload(Str("Ivan"), Str("Petrovich"), Str("Ivanov"), Num(20),
                Str("python411"), Absent)

\* bodies sent to the create and update routes of app.py and the blueprint
Payloads ==
  { Ivan,
    Payload(Str("Petr"), Str("Petrovich"), Str("Petrov"), Num(21),
            Str("python412"), Absent),
    [Ivan EXCEPT !.middle_name = Absent],
    [Ivan EXCEPT !.age = Str("20")],
    [Ivan EXCEPT !.age = Str("abc")],
    [Ivan EXCEPT !.age = Num(130)],
    [Ivan EXCEPT !.first_name = Str("Al")],
    [Ivan EXCEPT !.first_name = Absent],
    [Ivan EXCEPT !.first_name = Null],
    [Ivan EXCEPT !.group = Str("nogroup")],
    [Ivan EXCEPT !.group = Str("nogroup"), !.age = Absent],
    EmptyPayload }

\* bodies sent to the update routes
UpdatePayloads ==
  Payloads \ { [Ivan EXCEPT !.middle_name = Absent],
               [Ivan EXCEPT !.first_name = Str("Al")],
               [Ivan EXCEPT !.first_name = Null],
               [Ivan EXCEPT !.group = Str("nogroup"), !.age = Absent] }

\* bodies sent to the create route of the token variant
ApiPayloads ==
  { Payload(Str("Ivan"), Absent, Str("Ivanov"), Absent, Absent, Absent),
    Payload(Str("Ivan"), Str("Petrovich"), Str("Ivanov"), Str("20"), Absent,
            Num(1)),
    Payload(Str("Ivan"), Absent, Str("Ivanov"), Absent, Absent, Num(0)),
    Payload(Str("Ivan"), Absent, Str("Ivanov"), Absent, Absent, Num(99)),
    Payload(Absent, Absent, Str("Ivanov"), Absent, Absent, Num(1)),
    Payload(Str("Ivan"), Absent, Str("Ivanov"), Num(SqliteIntMax + 1), Absent,
            Num(1)),
    Ivan }

ApiKeys == {Null, Str(USERS[1].api_key), Str(USERS[2].api_key), Str("wrong")}

\* values handed to the keys.py functions directly: the header values, and
\* values of the other fields of the records
KeyValues == ApiKeys \cup {Str(""), Str("admin"), Str("user1"), Str("user")}

\* an exp claim no clock value of the model reaches
FarExp == (MaxTime \div TicksPerSecond) + 1

AdminToken == Token(JWT_SECRET_KEY, TRUE, "admin", TRUE, FarExp, TRUE)

\* tokens no login issued
Forged ==
  { Token("other", TRUE, "admin", TRUE, FarExp, TRUE),
    Token(JWT_SECRET_KEY, FALSE, "", TRUE, FarExp, FALSE),
    Token(JWT_SECRET_KEY, TRUE, "ghost", TRUE, FarExp, FALSE),
    Token(JWT_SECRET_KEY, TRUE, "admin", TRUE, 1, TRUE),
    Token(JWT_SECRET_KEY, TRUE, "admin", FALSE, 0, TRUE),
    NoToken }

\* headers of the student requests
Headers ==
  { NoHeader, Header(2, "Bearer", AdminToken),
    Header(2, "Bearer", Token("other", TRUE, "admin", TRUE, FarExp, TRUE)) }

\* headers built around the tokens toks
HeadersOf(toks) ==
  {Header(2, "Bearer", tok) : tok \in toks \cup Forged}
    \cup {Header(2, sch, AdminToken) : sch \in {"bearer", "BEARER", "Basic"}}
    \cup {NoHeader, Header(1, "Bearer", NoToken), Header(1, "token", NoToken),
          Header(3, "Bearer", AdminToken)}

Params == {Null, Str("last_name"), Str("age"), Str("group"), Str("bogus")}
Orders == {"asc", "DESC"}
Filters == {Null, Str(""), Str("python411"), Str("nogroup")}

Usernames == {"admin", "bob"}
Passwords == {"password", "hunter2"}

\* ------------------------------------------------------------------------
\* State machine
\* ------------------------------------------------------------------------
\* no update handler is between its lookups and its save()
NoUpdate ==
  [active |-> FALSE, variant |-> "", id |-> 0, data |-> EmptyPayload,
   student |-> Row(Null, Null, Null, Null, Null)]

Init ==
  /\ students = <<>>
  /\ users_db = [u \in {"admin"} |->
                   [username |-> "admin", password |-> Hash("password", 1),
                    is_admin |-> TRUE]]
  /\ now = 0
  /\ issued = {}
  /\ req = Request("", "")
  /\ resp = ErrorResp(0)
  /\ dbLog = <<>>
  /\ bodyRan = FALSE
  /\ current_user = None
  /\ registered = [u \in {"admin"} |-> [password |-> "password",
                                        is_admin |-> TRUE]]
  /\ USERS = USERS_at_import
  /\ key_check = [api_key |-> Null, valid |-> FALSE, admin |-> FALSE]
  /\ inflight = NoUpdate
  /\ registering = {}

\* the request r was answered as out describes
Handled(r, out, user) ==
  /\ req' = r
  /\ resp' = out.resp
  /\ students' = out.tbl
  /\ dbLog' = out.log
  /\ bodyRan' = out.ran
  /\ current_user' = user
  /\ UNCHANGED <<users_db, now, issued, registered, USERS, key_check,
                 inflight, registering>>

\* room for one more row within the bounds
CanCreate ==
  Cardinality(DOMAIN students) < MaxStudents /\ NextId(students) <= MaxId

AppGet ==
  \E id \in Ids :
    Handled([Request("app", "get") EXCEPT !.id = id],
            app_get_student_by_id(students, id), None)

AppCreate ==
  /\ CanCreate
  /\ \E data \in Payloads :
       Handled([Request("app", "create") EXCEPT !.data = data],
               app_create_student(students, data), None)

AppDelete ==
  \E id \in Ids :
    Handled([Request("app", "delete") EXCEPT !.id = id],
            app_delete_student(students, id), None)

AppUpdate ==
  \E id \in Ids, data \in UpdatePayloads :
    Handled([Request("app", "update") EXCEPT !.id = id, !.data = data],
            app_update_student(students, id, data), None)

AppList ==
  \E param \in Params, order \in Orders, filter \in Filters :
    Handled([Request("app", "list") EXCEPT !.param = param, !.order = order,
                                           !.filter = filter],
            app_get_students(students, param, order, filter), None)

BpGet ==
  \E id \in Ids, api_key \in ApiKeys :
    Handled([Request("bp", "get") EXCEPT !.id = id, !.api_key = api_key],
            bp_get_student_by_id(students, id, api_key), None)

BpCreate ==
  /\ CanCreate
  /\ \E data \in Payloads :
       Handled([Request("bp", "create") EXCEPT !.data = data],
               bp_create_student(students, data), None)

BpDelete ==
  \E id \in Ids :
    Handled([Request("bp", "delete") EXCEPT !.id = id],
            bp_delete_student(students, id), None)

BpUpdate ==
  \E id \in Ids, data \in UpdatePayloads :
    Handled([Request("bp", "update") EXCEPT !.id = id, !.data = data],
            bp_update_student(students, id, data), None)

BpList ==
  \E param \in Params, order \in Orders, filter \in Filters :
    Handled([Request("bp", "list") EXCEPT !.param = param, !.order = order,
                                          !.filter = filter],
            bp_get_students(students, param, order, filter), None)

ApiGet(ids, hs) ==
  \E id \in ids, h \in hs :
    Handled([Request("api", "get") EXCEPT !.id = id, !.header = h, !.at = now],
            api_get_route(students, users_db, now, h, id),
            token_required(users_db, now, h))

ApiCreate ==
  /\ CanCreate
  /\ \E data \in ApiPayloads, h \in Headers :
       Handled([Request("api", "create") EXCEPT !.data = data, !.header = h,
                                                !.at = now],
               api_create_route(students, users_db, now, h, data),
               IF StudentCreateSchema(data)
               THEN token_required(users_db, now, h) ELSE None)

ApiGetStudent == ApiGet(Ids, Headers)

Next ==
  \/ AppGet \/ AppCreate \/ AppDelete \/ AppUpdate
  \/ BpGet \/ BpCreate \/ BpDelete \/ BpUpdate
  \/ ApiGetStudent \/ ApiCreate

Spec == Init /\ [][Next]_vars

\* the listing routes over the tables the create routes build
ListNext == AppCreate \/ ApiCreate \/ AppDelete \/ AppList \/ BpList

ListSpec == Init /\ [][ListNext]_vars

\* ------------------------------------------------------------------------
\* The token variant's user store, clock and protected route
\* ------------------------------------------------------------------------
Tick ==
  /\ now < MaxTime
  /\ now' = now + 1
  /\ UNCHANGED <<students, users_db, issued, req, resp, dbLog, bodyRan,
                 current_user, registered, USERS, key_check, inflight,
                 registering>>

Register ==
  \E username \in Usernames, password \in Passwords, adm \in BOOLEAN,
     salt \in Salts :
    /\ Cardinality(DOMAIN users_db) < MaxUsers \/ username \in DOMAIN users_db
    /\ users_db' = register_user(users_db, username, password, adm, salt).db
    /\ req' = [Request("api", "register") EXCEPT !.username = username,
                 !.password = password, !.is_admin = adm, !.at = now]
    /\ resp' = register(users_db, username, password, adm, salt)
    /\ registered' =
         IF resp'.status = 200
         THEN [u \in DOMAIN registered \cup {username} |->
                 IF u = username
                 THEN [password |-> password, is_admin |-> adm]
                 ELSE registered[u]]
         ELSE registered
    /\ dbLog' = <<>>
    /\ bodyRan' = TRUE
    /\ current_user' = None
    /\ UNCHANGED <<students, now, issued, USERS, key_check, inflight,
                   registering>>

Login ==
  \E username \in Usernames, password \in Passwords :
    LET r == login(users_db, now, username, password)
    IN /\ r.status = 200 => Cardinality(issued) < MaxIssued
       /\ issued' = IF r.status = 200
                    THEN issued \cup {[token |-> r.token, at |-> now]}
                    ELSE issued
       /\ req' = [Request("api", "login") EXCEPT !.username = username,
                    !.password = password, !.at = now]
       /\ resp' = r
       /\ dbLog' = <<>>
       /\ bodyRan' = TRUE
       /\ current_user' = None
       /\ UNCHANGED <<students, users_db, now, registered, USERS, key_check,
                      inflight, registering>>

ApiGetAuth == ApiGet({1}, HeadersOf({e.token : e \in issued}))

AuthNext == Tick \/ Register \/ Login \/ ApiGetAuth

AuthSpec == Init /\ [][AuthNext]_vars

\* ------------------------------------------------------------------------
\* The blueprint and the keys.py functions it imports
\* ------------------------------------------------------------------------
\* a direct call of is_valid_api_key and of is_admin with the same key
KeysCall ==
  \E api_key \in KeyValues :
    /\ key_check' = [api_key |-> api_key, valid |-> is_valid_api_key(api_key),
                     admin |-> is_admin(api_key)]
    /\ UNCHANGED <<students, users_db, now, issued, req, resp, dbLog,
                   bodyRan, current_user, registered, USERS, inflight,
                   registering>>

KeyNext == KeysCall \/ BpGet \/ BpCreate \/ BpDelete

KeySpec == Init /\ [][KeyNext]_vars

\* ------------------------------------------------------------------------
\* Requests served concurrently: the update handlers issue their queries one
\* by one (Student.get, Group.get, then save()), outside any transaction, and
\* another request's handler may run between two of them
\* ------------------------------------------------------------------------
\* the update handler of a variant, run without interruption
update_student(variant, tbl, id, data) ==
  IF variant = "app" THEN app_update_student(tbl, id, data)
  ELSE bp_update_student(tbl, id, data)

\* bodies of the updates served concurrently
RacePayloads ==
  { Ivan,
    Payload(Str("Petr"), Str("Petrovich"), Str("Petrov"), Num(21),
            Str("python412"), Absent),
    [Ivan EXCEPT !.group = Str("nogroup")],
    EmptyPayload }

\* the handler runs up to its save(): it answers at once when a lookup or
\* the validation fails, and otherwise holds the instance it loaded
UpdateLookup ==
  \E variant \in {"app", "bp"}, id \in Ids, data \in RacePayloads :
    LET o == update_student(variant, students, id, data)
        r == [Request(variant, "update") EXCEPT !.id = id, !.data = data]
    IN /\ ~inflight.active
       /\ IF o.log[Len(o.log)] = "Student.update"
          THEN /\ inflight' = [active |-> TRUE, variant |-> variant, id |-> id,
                               data |-> data, student |-> students[id]]
               /\ UNCHANGED <<students, users_db, now, issued, req, resp,
                              dbLog, bodyRan, current_user, registered, USERS,
                              key_check, registering>>
          ELSE Handled(r, o, None)

\* student.save(): UPDATE students SET ... WHERE id = ?, which changes no
\* row and raises nothing when the row is gone; the response is built from
\* the instance
UpdateSave ==
  LET id == inflight.id
      held == [k \in DOMAIN students \cup {id} |->
                 IF k = id THEN inflight.student ELSE students[k]]
      o == update_student(inflight.variant, held, id, inflight.data)
  IN /\ inflight.active
     /\ req' = [Request(inflight.variant, "update") EXCEPT
                  !.id = id, !.data = inflight.data]
     /\ resp' = o.resp
     /\ students' = IF id \in DOMAIN students
                    THEN [students EXCEPT ![id] = o.tbl[id]]
                    ELSE students
     /\ dbLog' = o.log
     /\ bodyRan' = TRUE
     /\ current_user' = None
     /\ inflight' = NoUpdate
     /\ UNCHANGED <<users_db, now, issued, registered, USERS, key_check,
                    registering>>

RaceNext == AppCreate \/ AppDelete \/ BpDelete \/ UpdateLookup \/ UpdateSave

RaceSpec == Init /\ [][RaceNext]_vars

\* ------------------------------------------------------------------------
\* Register requests served concurrently: register_user tests
\* `username in users_db`, computes the hash and then assigns
\* users_db[username], and the threads of the server share users_db
\* ------------------------------------------------------------------------
\* users_db after users_db[username] = {...}
store_user(db, username, password, adm, salt) ==
  [u \in DOMAIN db \cup {username} |->
     IF u = username
     THEN [username |-> username, password |-> Hash(password, salt),
           is_admin |-> adm]
     ELSE db[u]]

\* register_user up to its test of the username: the route answers 400 at
\* once when the name is taken, otherwise the handler goes on to hash the
\* password
RegisterCheck ==
  \E username \in Usernames, password \in Passwords, adm \in BOOLEAN,
     salt \in Salts :
    /\ Cardinality(registering) < MaxConcurrent
    /\ Cardinality(DOMAIN users_db) < MaxUsers \/ username \in DOMAIN users_db
    /\ IF username \in DOMAIN users_db
       THEN /\ req' = [Request("api", "register") EXCEPT
                         !.username = username, !.password = password,
                         !.is_admin = adm, !.at = now]
            /\ resp' = ErrorResp(400)
            /\ dbLog' = <<>>
            /\ bodyRan' = TRUE
            /\ current_user' = None
            /\ UNCHANGED registering
       ELSE /\ registering' = registering \cup
                                {[username |-> username, password |-> password,
                                  is_admin |-> adm, salt |-> salt]}
            /\ UNCHANGED <<req, resp, dbLog, bodyRan, current_user>>
    /\ UNCHANGED <<students, users_db, now, issued, registered, USERS,
                   key_check, inflight>>

\* the rest of register_user and of the route: the user is stored under the
\* username, whatever users_db holds for it by now, and the request is
\* answered with success
RegisterWrite ==
  \E r \in registering :
    /\ users_db' = store_user(users_db, r.username, r.password, r.is_admin,
                              r.salt)
    /\ registering' = registering \ {r}
    /\ req' = [Request("api", "register") EXCEPT
                 !.username = r.username, !.password = r.password,
                 !.is_admin = r.is_admin, !.at = now]
    /\ resp' = MessageResp(200)
    /\ registered' =
         [u \in DOMAIN registered \cup {r.username} |->
            IF u = r.username
            THEN [password |-> r.password, is_admin |-> r.is_admin]
            ELSE registered[u]]
    /\ dbLog' = <<>>
    /\ bodyRan' = TRUE
    /\ current_user' = None
    /\ UNCHANGED <<students, now, issued, USERS, key_check, inflight>>

RegisterRaceNext == RegisterCheck \/ RegisterWrite \/ Login

RegisterRaceSpec == Init /\ [][RegisterRaceNext]_vars

\* ------------------------------------------------------------------------
\* Properties
\* ------------------------------------------------------------------------
\* the request r carries the credential its route asks for
CredentialOk(r) ==
  CASE r.variant = "bp" /\ r.op = "get" -> is_valid_api_key(r.api_key)
    [] r.variant = "api" -> token_required(users_db, now, r.header).ok
    [] OTHER -> TRUE

\* the create request r names a group that is not in the groups table
NamesMissingGroup(r) ==
  IF r.variant = "api"
  THEN /\ IsInteger(r.data.group_id)
       /\ IntDbValue(r.data.group_id).i \notin DOMAIN Groups
  ELSE r.data.group.t # "absent" /\ ~GroupExists(r.data.group)

\* C1: a create payload that passes the handler's validation and names an
\* existing group is answered 201 with an id, a row with that id exists, and
\* reading that id back returns exactly the values of the create response.
C1_CreateReadRoundTrip ==
  (/\ req.op = "create"
   /\ req.variant \in {"app", "bp"}
   /\ IF req.variant = "app"
      THEN req.data # EmptyPayload /\ app_required_fields(req.data)
      ELSE StudentValidator(req.data)
   /\ GroupExists(req.data.group))
  => /\ resp.status = 201
     /\ resp.student.id \in DOMAIN students
     /\ app_get_student_by_id(students, resp.student.id).resp
          = StudentResp(200, resp.student)
     /\ bp_get_student_by_id(students, resp.student.id,
                             Str(USERS[1].api_key)).resp
          = StudentResp(200, resp.student)

C3_GetMissingIs404 ==
  [][req'.op = "get"
       => /\ students' = students
          /\ (req'.id \notin DOMAIN students /\ CredentialOk(req'))
               => (resp'.status = 404 /\ resp'.kind = "error")]_vars

\* an authenticated read of a missing id from a table that holds other rows
C3_Witness ==
  /\ req.op = "get"
  /\ req.variant = "bp"
  /\ CredentialOk(req)
  /\ req.id \notin DOMAIN students
  /\ DOMAIN students # {}
  /\ resp.status = 404

\* C4: after an update answered 200, reading the id back returns the name,
\* middle_name, age and group of the update payload, under the same id.
C4_UpdateReadRoundTrip ==
  (req.op = "update" /\ resp.status = 200)
  => LET got == app_get_student_by_id(students, req.id).resp
     IN /\ got.status = 200
        /\ got.student.id = req.id
        /\ got.student.name = PyStr(req.data.first_name) \o " "
                                \o PyStr(req.data.last_name)
        /\ got.student.middle_name = req.data.middle_name
        /\ got.student.age = req.data.age
        /\ got.student.group = req.data.group

\* C5: a delete answered 200 removes the row of its id; while an id has no
\* row, reading it (with the credential the route asks for) and deleting it
\* are answered 404; and an id without a row gets one only by a create that
\* is answered 201 with that id.
C5_DeletedStaysGone ==
  [][/\ (req'.op = "delete" /\ resp'.status = 200)
          => (req'.id \in DOMAIN students /\ req'.id \notin DOMAIN students')
     /\ (req'.op = "delete" /\ req'.id \notin DOMAIN students)
          => (resp'.status = 404 /\ students' = students)
     /\ (req'.op = "get" /\ req'.id \notin DOMAIN students /\ CredentialOk(req'))
          => (resp'.status = 404 /\ students' = students)
     /\ \A id \in DOMAIN students' \ DOMAIN students :
          req'.op = "create" /\ resp'.status = 201 /\ resp'.student.id = id]_vars

\* a delete has just removed a row from a table that keeps another one
C5_Witness ==
  /\ req.op = "delete"
  /\ resp.status = 200
  /\ req.id \notin DOMAIN students
  /\ DOMAIN students # {}

\* C6: a listing whose param is none of last_name, age, group is answered
\* 400 and has executed no query, whatever its filter is.
C6_BadSortNoQuery ==
  (/\ req.op = "list"
   /\ req.param # Null
   /\ req.param.s \notin {"last_name", "age", "group"})
  => (resp.status = 400 /\ dbLog = <<>>)

\* C7 as stated: a token issued by login at time t is accepted at every
\* time before t + JWT_EXPIRATION and rejected at every time after it.
C7_ExpiresAtIssuePlusDuration ==
  \A e \in issued :
    LET v == verify_token(users_db, now, e.token)
        deadline == e.at + JWT_EXPIRATION * TicksPerSecond
    IN /\ now < deadline => (v.ok /\ v.username = e.token.sub)
       /\ now > deadline => ~v.ok

\* C7 amended: the token carries as expiry the issue time truncated to whole
\* seconds plus JWT_EXPIRATION; it is accepted at every time before that
\* instant and rejected from that instant on.
C7_ExpiresAtWholeSecond ==
  \A e \in issued :
    LET v == verify_token(users_db, now, e.token)
        expiry == (e.at \div TicksPerSecond) + JWT_EXPIRATION
    IN /\ e.token.exp = expiry
       /\ now < expiry * TicksPerSecond => (v.ok /\ v.username = e.token.sub)
       /\ now >= expiry * TicksPerSecond => ~v.ok

\* a token issued in mid-second was refused by the protected route before
\* issue time + JWT_EXPIRATION had passed
C7_Witness ==
  \E e \in issued :
    /\ req.op = "get"
    /\ req.variant = "api"
    /\ req.header = Header(2, "Bearer", e.token)
    /\ req.at = now
    /\ now >= ((e.at \div TicksPerSecond) + JWT_EXPIRATION) * TicksPerSecond
    /\ now < e.at + JWT_EXPIRATION * TicksPerSecond
    /\ resp.status = 401

\* C8: verify_token returns None for a token that is malformed or signed
\* with another key, expired, without subject, or whose subject is not in
\* users_db; what it returns otherwise is the identity of the subject.
C8_VerifyFailsClosed ==
  \A token \in {e.token : e \in issued} \cup Forged :
    LET v == verify_token(users_db, now, token)
        bad == \/ ~token.ok
               \/ token.key # JWT_SECRET_KEY
               \/ token.hasExp /\ token.exp * TicksPerSecond <= now
               \/ ~token.hasSub
               \/ token.sub \notin DOMAIN users_db
    IN /\ bad => v = None
       /\ ~bad => (v.ok /\ v.username = token.sub
                   /\ v.is_admin = token.is_admin)

\* the protected route refused a correctly signed, unexpired token whose
\* subject is not registered, while another user had been registered
C8_Witness ==
  /\ req.op = "get"
  /\ req.variant = "api"
  /\ req.header.n = 2
  /\ req.header.token.ok
  /\ req.header.token.key = JWT_SECRET_KEY
  /\ req.header.token.sub \notin DOMAIN users_db
  /\ req.header.token.hasSub
  /\ ~Expired(req.header.token, req.at)
  /\ Cardinality(DOMAIN users_db) > 1
  /\ resp.status = 401
  /\ current_user = None

\* C9: on the routes wrapped by token_required the body runs only for a
\* header "bearer <token>" whose token verify_token accepts; any other
\* request is answered 401 without entering the body or touching the database.
C9_TokenRequired ==
  (req.variant = "api" /\ req.op \in {"get", "create"})
  => LET good == /\ req.header.n = 2
                 /\ Lower(req.header.scheme) = "bearer"
                 /\ verify_token(users_db, req.at, req.header.token).ok
     IN /\ bodyRan => good
        /\ ~good => (resp.status = 401 /\ ~bodyRan /\ dbLog = <<>>)

\* the payload of r fails the validation its handler performs
FailsValidation(r) ==
  CASE r.variant = "bp" -> ~StudentValidator(r.data)
    [] r.op = "create" -> r.data = EmptyPayload \/ ~app_required_fields(r.data)
    [] OTHER -> ~app_update_fields(r.data)

C11_CreateIsAtomic ==
  [][(req'.op = "create" /\ req'.variant = "api")
       => /\ resp'.status # 201 => students' = students
          /\ bodyRan' =>
               /\ dbLog'[1] = "BEGIN"
               /\ dbLog'[Len(dbLog')] =
                    IF resp'.status = 201 THEN "COMMIT" ELSE "ROLLBACK"
          /\ resp'.status = 201 =>
               LET d == req'.data
                   id == resp'.student.id
               IN /\ id \notin DOMAIN students
                  /\ students' =
                       Insert(students,
                              StoredRow(d.first_name, Get(d.middle_name),
                                        d.last_name, Get(d.age),
                                        IntDbValue(Get(d.group_id))))
                  /\ DOMAIN students' = DOMAIN students \cup {id}
                  /\ \/ students'[id].group = Null
                     \/ students'[id].group.i \in DOMAIN Groups]_vars

\* the transaction inserted a row, the lookup of its group raised, and the
\* table still holds only the rows of groups that exist
C11_Witness ==
  /\ req.op = "create"
  /\ req.variant = "api"
  /\ bodyRan
  /\ resp.status = 400
  /\ \E k \in DOMAIN dbLog : dbLog[k] = "Student.insert"
  /\ dbLog[Len(dbLog)] = "ROLLBACK"
  /\ \E id \in DOMAIN students : students[id].group = Num(1)
  /\ \A id \in DOMAIN students : students[id].group # Num(0)

\* C12: a registration of a username that is in users_db is answered 400 and
\* leaves users_db as it was; a registration of a username that is not in
\* users_db is answered 200 and adds the one entry of that username, with a
\* hash of the submitted password and the submitted admin flag, leaving
\* every other entry as it was; nothing else changes users_db.
C12_DuplicateRegistration ==
  [][/\ (req'.op = "register" /\ now' = now) =>
          IF req'.username \in DOMAIN users_db
          THEN resp'.status = 400 /\ users_db' = users_db
          ELSE /\ resp'.status = 200
               /\ DOMAIN users_db' = DOMAIN users_db \cup {req'.username}
               /\ \A u \in DOMAIN users_db : users_db'[u] = users_db[u]
               /\ users_db'[req'.username].username = req'.username
               /\ users_db'[req'.username].is_admin = req'.is_admin
               /\ Verify(req'.password, users_db'[req'.username].password)
     /\ users_db' # users_db => (req'.op = "register" /\ resp'.status = 200)]_vars

\* bob, registered before, was registered again with another password and
\* another admin flag and the request was refused
C12_Witness ==
  /\ req.op = "register"
  /\ req.username = "bob"
  /\ resp.status = 400
  /\ "bob" \in DOMAIN users_db
  /\ ~Verify(req.password, users_db["bob"].password)
  /\ users_db["bob"].is_admin # req.is_admin
  /\ "admin" \in DOMAIN users_db

\* C13: a login is answered 200 with a token for the username, token_type
\* bearer and expires_in = JWT_EXPIRATION exactly when the username was
\* registered (answered 200, or is the built-in admin) and the password is
\* the one of that registration; every other login is answered 401 and
\* carries no token.
C13_LoginIffRegisteredPassword ==
  [][(req'.op = "login" /\ now' = now) =>
       IF /\ req'.username \in DOMAIN registered
          /\ registered[req'.username].password = req'.password
       THEN /\ resp'.status = 200
            /\ resp'.kind = "token"
            /\ resp'.token_type = "bearer"
            /\ resp'.expires_in = JWT_EXPIRATION
            /\ resp'.token.ok
            /\ resp'.token.key = JWT_SECRET_KEY
            /\ resp'.token.hasSub
            /\ resp'.token.sub = req'.username
            /\ req'.username \in DOMAIN users_db
       ELSE /\ resp'.status = 401
            /\ resp'.kind = "error"
            /\ resp'.token = NoToken
            /\ issued' = issued]_vars

\* bob logged in with the password of his registration, which is not the
\* built-in admin's
C13_Witness ==
  /\ req.op = "login"
  /\ req.username = "bob"
  /\ "bob" \in DOMAIN registered
  /\ registered["bob"].password = req.password
  /\ req.password # registered["admin"].password
  /\ resp.status = 200
  /\ resp.token.sub = "bob"
  /\ resp.expires_in = JWT_EXPIRATION

\* the api_key values of the records of USERS that satisfy the role test
KeysOfRole(roles) ==
  {Str(USERS[k].api_key) : k \in {j \in DOMAIN USERS : USERS[j].role \in roles}}

\* C14: for the key of the last call, is_valid_api_key returned true exactly
\* when a record of USERS has that api_key and is_admin exactly when a record
\* has that api_key and the role admin (so: the admin's key is valid and
\* admin, user1's key is valid and not admin, a missing key and every other
\* value are neither); is_admin implies is_valid_api_key; the blueprint's
\* read route answers 403 exactly for the keys that are not valid; and USERS
\* is the list the module was loaded with.
C14_KeyPredicates ==
  /\ key_check.valid <=> key_check.api_key \in KeysOfRole({"admin", "user"})
  /\ key_check.admin <=> key_check.api_key \in KeysOfRole({"admin"})
  /\ key_check.admin => key_check.valid
  /\ key_check.api_key = Str("asfd234U*(&*#@$@#$sf---)")
       => (key_check.valid /\ key_check.admin)
  /\ key_check.api_key = Str("aasdfJLs13&^^%%^ads!!fs")
       => (key_check.valid /\ ~key_check.admin)
  /\ key_check.api_key \in {Null, Str(""), Str("admin"), Str("user1"),
                            Str("user"), Str("wrong")}
       => (~key_check.valid /\ ~key_check.admin)
  /\ (req.variant = "bp" /\ req.op = "get")
       => (resp.status = 403 <=> req.api_key \notin KeysOfRole({"admin", "user"}))
  /\ USERS = USERS_at_import

\* the functions were called with user1's key, after the read route had
\* answered a request carrying that key
C14_Witness ==
  /\ key_check.api_key = Str("aasdfJLs13&^^%%^ads!!fs")
  /\ key_check.valid
  /\ ~key_check.admin
  /\ req.variant = "bp"
  /\ req.op = "get"
  /\ req.api_key = key_check.api_key
  /\ resp.status # 403

\* C15: a create payload with valid first_name, last_name and age and the
\* name of an existing group, but without middle_name, is answered 201 and
\* the student of the response and the row stored have middle_name null, in
\* app.py and in the blueprint.
C15_CreateWithoutMiddleName ==
  (/\ req.op = "create"
   /\ req.variant \in {"app", "bp"}
   /\ req.data.middle_name = Absent
   /\ ValidName(req.data.first_name)
   /\ ValidName(req.data.last_name)
   /\ ValidAge(req.data.age)
   /\ ValidName(req.data.group)
   /\ GroupExists(req.data.group))
  => /\ resp.status = 201
     /\ resp.student.middle_name = Null
     /\ resp.student.id \in DOMAIN students
     /\ students[resp.student.id].middle_name = Null

\* the INSERT of the request handled last raised: it is the last query the
\* handler executed (before the rollback, if any) and no row was created
InsertRaised ==
  /\ resp.status # 201
  /\ \E k \in DOMAIN dbLog :
       /\ dbLog[k] = "Student.insert"
       /\ \/ k = Len(dbLog)
          \/ k = Len(dbLog) - 1 /\ dbLog[Len(dbLog)] = "ROLLBACK"

\* C16: when the insert of a create handler raises a persistence-layer
\* error, the request is answered with a 5xx error response, in every
\* variant.
C16_UnexpectedIs5xx ==
  (req.op = "create" /\ InsertRaised)
  => (resp.status >= 500 /\ resp.status <= 599 /\ resp.kind = "error")

\* C17: an update answered 200 for a student id leaves a row with that id
\* that holds the values of the response, also when other requests are
\* served while the update is.
C17_UpdateSurvivesConcurrentDelete ==
  (req.op = "update" /\ resp.status = 200)
  => /\ req.id \in DOMAIN students
     /\ RowDict(students, req.id) = resp.student

\* the request r carries the credential of its variant: a key of USERS in
\* X-API-KEY for the blueprint, an acceptable bearer token for the token
\* variant
HasCredential(r) ==
  CASE r.variant = "bp" -> is_valid_api_key(r.api_key)
    [] r.variant = "api" -> token_required(users_db, r.at, r.header).ok
    [] OTHER -> TRUE

\* C18: in the authenticated variants (the blueprint and the token variant)
\* a read, create, update or delete request without a valid credential is
\* answered 401 or 403, whatever its payload, and has executed no query.
C18_CredentialCheckFirst ==
  (/\ req.variant \in {"bp", "api"}
   /\ req.op \in {"get", "create", "update", "delete"}
   /\ ~HasCredential(req))
  => (resp.status \in {401, 403} /\ dbLog = <<>>)

\* the update payload of r is empty, or one of first_name, middle_name,
\* last_name, age, group is missing or invalid: the handler's validation
\* rejects it, or its age does not denote an integer
UpdatePayloadInvalid(r) ==
  \/ r.data = EmptyPayload
  \/ FailsValidation(r)
  \/ IntDbFails(Get(r.data.age))

\* C19: an update of an id without row is answered 404 whatever the
\* payload; an update of an existing student is answered 400 when the
\* payload is empty or a field is missing or invalid, and 404 when the
\* payload is valid and names a group that does not exist; an update that is
\* not answered 200 leaves every row as it was.
C19_FailedUpdateChangesNothing ==
  [][(req'.op = "update" /\ req'.variant \in {"app", "bp"})
       => /\ resp'.status # 200 => students' = students
          /\ resp'.status =
               IF req'.id \notin DOMAIN students THEN 404
               ELSE IF UpdatePayloadInvalid(req') THEN 400
               ELSE IF ~GroupExists(req'.data.group) THEN 404
               ELSE 200]_vars

\* the listing request r has no sort field or one of the three allowed
ValidSort(r) ==
  r.param = Null \/ r.param.s \in {"", "last_name", "age", "group"}

\* the response rsp lists exactly the rows ids of tbl, each once and as
\* stored
ListsExactly(rsp, tbl, ids) ==
  /\ rsp.status = 200
  /\ rsp.kind = "list"
  /\ Len(rsp.list) = Cardinality(ids)
  /\ {rsp.list[k].id : k \in DOMAIN rsp.list} = ids
  /\ \A k \in DOMAIN rsp.list : rsp.list[k] = RowDict(tbl, rsp.list[k].id)

\* C20 as stated: a listing with filter=g is answered 404 when no group is
\* named g; otherwise, with valid sort parameters, it lists each student of
\* group g once and no other student; it changes no row.
C20_FilterListing ==
  [][(req'.op = "list" /\ req'.filter # Null)
       => /\ students' = students
          /\ ~GroupExists(req'.filter) => resp'.status = 404
          /\ (GroupExists(req'.filter) /\ ValidSort(req'))
               => ListsExactly(resp', students,
                               {id \in DOMAIN students :
                                  /\ students[id].group # Null
                                  /\ Str(Groups[students[id].group.i])
                                       = req'.filter})]_vars

\* C20 amended: the same for a filter value g that is not empty; a listing
\* whose filter value is empty is answered as the same request without
\* filter is, and changes no row either.
C20_NonEmptyFilterListing ==
  [][(req'.op = "list" /\ req'.filter # Null)
       => /\ students' = students
          /\ (req'.filter.s # "" /\ ~GroupExists(req'.filter))
               => resp'.status = 404
          /\ (GroupExists(req'.filter) /\ ValidSort(req'))
               => ListsExactly(resp', students,
                               {id \in DOMAIN students :
                                  /\ students[id].group # Null
                                  /\ Str(Groups[students[id].group.i])
                                       = req'.filter})
          /\ req'.filter.s = ""
               => resp' = get_students(students, req'.param, req'.order,
                                       Null).resp]_vars

\* a listing filtered by python411 and sorted by group returned one of the
\* two students of the table
C20_Witness ==
  /\ req.op = "list"
  /\ req.filter = Str("python411")
  /\ req.param = Str("group")
  /\ resp.status = 200
  /\ Len(resp.list) = 1
  /\ Cardinality(DOMAIN students) = 2
  /\ resp.list[1].group = Str("python411")

\* C21: the blueprint's read of a student by id is answered 403, without
\* any query, when X-API-KEY is missing or is not the api_key of a record of
\* USERS, whether or not the id has a row; with the key of a record of
\* either role the lookup is executed and answers 200 with the row or 404.
C21_KeyCheckBeforeLookup ==
  (req.variant = "bp" /\ req.op = "get")
  => IF req.api_key \in KeysOfRole({"admin", "user"})
     THEN /\ dbLog = <<"Student.get">>
          /\ resp = IF req.id \in DOMAIN students
                    THEN StudentResp(200, RowDict(students, req.id))
                    ELSE ErrorResp(404)
     ELSE /\ resp = ErrorResp(403)
          /\ dbLog = <<>>

\* a read of an id without row, carrying an unknown key, was answered 403
\* while the table held other rows
C21_Witness ==
  /\ req.variant = "bp"
  /\ req.op = "get"
  /\ req.api_key = Str("wrong")
  /\ req.id \notin DOMAIN students
  /\ DOMAIN students # {}
  /\ resp.status = 403
  /\ dbLog = <<>>

\* C22: a listing without filter whose param is last_name, age or group
\* returns, for any order value, every student row exactly once, as the
\* listing without sort parameters does.
C22_SortKeepsEveryStudent ==
  (/\ req.op = "list"
   /\ ~Truthy(req.filter)
   /\ req.param # Null
   /\ req.param.s \in {"last_name", "age", "group"})
  => /\ ListsExactly(resp, students, DOMAIN students)
     /\ {resp.list[k] : k \in DOMAIN resp.list}
          = LET all == get_students(students, Null, req.order, Null).resp.list
            IN {all[k] : k \in DOMAIN all}

\* C23: after any register and login requests, every token that
\* verify_token accepts (of those login issued and of the forged ones)
\* yields an identity whose username is a key of users_db and whose is_admin
\* flag is the one users_db stores for that user.
C23_AcceptedFlagIsStoredFlag ==
  \A token \in {e.token : e \in issued} \cup Forged :
    LET v == verify_token(users_db, now, token)
    IN v.ok => /\ v.username \in DOMAIN users_db
               /\ v.is_admin = users_db[v.username].is_admin

\* C24: of the register requests for one unregistered username that are
\* handled at the same time at most one is answered with success: a
\* registration answered with success stores a username that users_db did
\* not hold, with the hash of its password and its admin flag, and leaves
\* every other entry as it was.
C24_AtMostOneRegistrationSucceeds ==
  [][(/\ req'.op = "register"
      /\ resp'.status = 200
      /\ registering' \subseteq registering
      /\ registering' # registering)
       => /\ req'.username \notin DOMAIN users_db
          /\ Verify(req'.password, users_db'[req'.username].password)
          /\ users_db'[req'.username].is_admin = req'.is_admin
          /\ \A u \in DOMAIN users_db : users_db'[u] = users_db[u]]_vars

====
